---- MODULE Spec2Model ----
(***************************************************************************)
(* gsheet_mcp: the MCP tool handlers of src/gsheet_mcp/core.py and the     *)
(* Markdown renderer they share.                                           *)
(*                                                                         *)
(* A Python str is modelled as a sequence of chunks, each chunk a TLA+     *)
(* string; the str is the concatenation of its chunks.  Cell contents,     *)
(* separators and digits are one character per chunk, so strip(), int(),   *)
(* str() and join() are computed character by character; the fixed         *)
(* sentences of the preamble are one chunk per line.                       *)
(***************************************************************************)
EXTENDS Integers, Sequences, FiniteSets, TLC

VARIABLES
    data,     \* the worksheet snapshot handed to the renderer
    table,    \* the renderer's result for it
    client,   \* the shared gspread client of the lifespan context
    remote,   \* the remote worksheet's cell values
    ver,      \* how many mutations the remote worksheet has applied
    started,  \* how many tool calls have arrived
    failed,   \* whether some invocation on this client has met a remote error
    inv       \* the tool invocation each task is running

vars == <<data, table, client, remote, ver, started, failed, inv>>

rvars == <<data, table>>

hvars == <<client, remote, ver, started, failed, inv>>

----------------------------------------------------------------------------
(* Python str primitives                                                   *)

NL == "\n"

Whitespace == {" ", "\t", NL, "\r"}

Digits == <<"0", "1", "2", "3", "4", "5", "6", "7", "8", "9">>

IsDigit(c) == \E d \in 1..10 : Digits[d] = c

DigitValue(c) == (CHOOSE d \in 1..10 : Digits[d] = c) - 1

RECURSIVE lstrip(_)
lstrip(s) ==
    IF s # <<>> /\ Head(s) \in Whitespace THEN lstrip(Tail(s)) ELSE s

RECURSIVE rstrip(_)
rstrip(s) ==
    IF s # <<>> /\ s[Len(s)] \in Whitespace
    THEN rstrip(SubSeq(s, 1, Len(s) - 1))
    ELSE s

\* str.strip(): leading and trailing whitespace removed.
strip(s) == rstrip(lstrip(s))

\* The digit part of an int() literal: digits, single underscores between them.
RECURSIVE IsDigitRun(_)
IsDigitRun(s) ==
    /\ s # <<>>
    /\ IsDigit(Head(s))
    /\ \/ Len(s) = 1
       \/ IsDigitRun(Tail(s))
       \/ Len(s) >= 3 /\ s[2] = "_" /\ IsDigitRun(SubSeq(s, 3, Len(s)))

Unsigned(s) == IF s # <<>> /\ Head(s) \in {"+", "-"} THEN Tail(s) ELSE s

\* int(cell) returns (TRUE) or raises ValueError (FALSE).
IntParses(cell) == IsDigitRun(Unsigned(strip(cell)))

RECURSIVE DigitRunValue(_, _)
DigitRunValue(s, acc) ==
    IF s = <<>> THEN acc
    ELSE IF Head(s) = "_" THEN DigitRunValue(Tail(s), acc)
    ELSE DigitRunValue(Tail(s), 10 * acc + DigitValue(Head(s)))

\* The value of int(cell) when it parses.
IntValue(cell) ==
    LET t == strip(cell)
        v == DigitRunValue(Unsigned(t), 0)
    IN  IF Head(t) = "-" THEN 0 - v ELSE v

\* str(i) of a non-negative int.
RECURSIVE str(_)
str(i) ==
    IF i < 10 THEN <<Digits[i + 1]>>
    ELSE str(i \div 10) \o <<Digits[(i % 10) + 1]>>

\* sep.join(parts)
RECURSIVE join(_, _)
join(sep, parts) ==
    IF parts = <<>> THEN <<>>
    ELSE IF Len(parts) = 1 THEN parts[1]
    ELSE parts[1] \o sep \o join(sep, Tail(parts))

----------------------------------------------------------------------------
(* The renderer                                                            *)

\* check_skip_empty_row with `except ValueError: return False`.
check_skip_empty_row_IntegersOnly(cell) ==
    IntParses(cell) /\ IntValue(cell) # 0 /\ strip(cell) # <<>>

\* check_skip_empty_row without the integer test: `return cell.strip() != ""`.
check_skip_empty_row_NoZeroTest(cell) == strip(cell) # <<>>

\* Truthiness of check_skip_empty_row(cell).
check_skip_empty_row(cell) ==
    IF IntParses(cell)
    THEN IntValue(cell) # 0 /\ strip(cell) # <<>>
    ELSE strip(cell) # <<>>

\* any([check_skip_empty_row(cell) for cell in row])
AnyMeaningful(row) == \E c \in 1..Len(row) : check_skip_empty_row(row[c])

Preamble ==
    << "First row and column are index, so they are not part of the data.", NL,
       "Use as a reference to the data index in the sheet.", NL,
       "If row is empty, it will not show using index as reference", NL, NL >>

EmptySheetMessage == << "Empty sheet, no data to display." >>

ColSep == <<" ", "|", " ">>

\* index_list = [str(i) for i in range(1, len(data[0]))]
index_list(grid) ==
    [i \in 1..(IF Len(grid[1]) > 0 THEN Len(grid[1]) - 1 ELSE 0) |-> str(i)]

\* The header sized by the longest row instead of the first.
RECURSIVE LongestRow(_)
LongestRow(grid) ==
    IF Len(grid) = 1 THEN grid[1]
    ELSE LET rest == LongestRow(Tail(grid))
         IN  IF Len(rest) > Len(grid[1]) THEN rest ELSE grid[1]

HeaderLine_LongestRow(grid) ==
    <<"|", " ", "Index">> \o ColSep
        \o join(ColSep, index_list(<<LongestRow(grid)>>)) \o <<" ", "|", NL>>

\* The header row: "| Index | " + " | ".join(index_list) + " |\n"
HeaderLine(grid) ==
    <<"|", " ", "Index">> \o ColSep \o join(ColSep, index_list(grid)) \o <<" ", "|", NL>>

\* The row line under enumerate(data) without its start of 1.
RowLine_ZeroBased(index, row) ==
    <<"|", " ">> \o str(index - 1) \o ColSep \o join(ColSep, row) \o <<" ", "|", NL>>

\* f"| {index} | " + " | ".join(row) + " |\n"
RowLine(index, row) ==
    <<"|", " ">> \o str(index) \o ColSep \o join(ColSep, row) \o <<" ", "|", NL>>

\* The loop numbering the rows it keeps instead of the rows it reads.
RECURSIVE RenderKept(_, _, _)
RenderKept(rows, index, count) ==
    IF index > Len(rows) THEN <<>>
    ELSE IF ~AnyMeaningful(rows[index]) THEN RenderKept(rows, index + 1, count)
    ELSE RowLine(count, rows[index]) \o RenderKept(rows, index + 1, count + 1)

RenderRows_CountKept(rows, index) == RenderKept(rows, index, index)

\* The loop over enumerate(data, 1), from position index on.
RECURSIVE RenderRows(_, _)
RenderRows(rows, index) ==
    IF index > Len(rows) THEN <<>>
    ELSE IF ~AnyMeaningful(rows[index]) THEN RenderRows(rows, index + 1)
    ELSE RowLine(index, rows[index]) \o RenderRows(rows, index + 1)

\* sheet_to_markdown with data = sheet.get_values() already fetched.
sheet_to_markdown(grid) ==
    IF grid = <<>> THEN EmptySheetMessage
    ELSE Preamble \o HeaderLine(grid) \o RenderRows(grid, 1)

----------------------------------------------------------------------------
(* Renderer inputs: every grid of at most MaxRows rows of at most MaxCols  *)
(* cells, the ragged grids of the specification's examples, the grids of   *)
(* the shape of its three-by-two example, and one-cell grids over all      *)
(* short texts.                                                            *)

MaxRows == 2
MaxCols == 1

Cells ==
    { <<>>, <<"0">>, <<" ">>, <<" ", "0", " ">>, <<"y">>, <<"5">> }

AllRows == UNION { [1..n -> Cells] : n \in 0..MaxCols }

Grids == UNION { [1..r -> AllRows] : r \in 0..MaxRows }

HeaderExample == << <<"h", "1">>, <<"h", "2">> >>

\* The example's header row over any two body rows of two cells.
ExampleShapeGrids ==
    { << HeaderExample, r2, r3 >> : r2 \in [1..2 -> Cells], r3 \in [1..2 -> Cells] }

ExampleGrid == << HeaderExample, << <<"0">>, <<>> >>, << <<>>, <<"y">> >> >>

RaggedGrids ==
    { << <<<<"a">>, <<"b">>, <<"c">>>>, <<<<"x">>>> >>,
      << <<<<"x">>>>, <<<<"a">>, <<"b">>, <<"c">>>> >>,
      << <<>>, <<<<"a">>, <<"b">>>> >>,
      << <<<<"a">>, <<"b">>, <<"c">>, <<"d">>>>, <<>>, <<<<"0">>, <<" ">>>> >> }

\* One-cell grids whose cell is any text of at most MaxCellLen characters.
MaxCellLen == 3

CellChars == {" ", "0", "1", "-", "+", "_", "y"}

CharCells == UNION { [1..n -> CellChars] : n \in 0..MaxCellLen }

SingleCellGrids == { << <<c>> >> : c \in CharCells }

NotRendered == << "<not rendered>" >>


----------------------------------------------------------------------------
(* The tool handlers.  Every remote call of a handler is one step: the     *)
(* call blocks the handling task and either returns or raises.             *)

Tasks == {"t1", "t2"}

NoneArg == "<None>"

\* `not x` is false: the argument is neither None nor the empty string.
Given(x) == x # NoneArg /\ x # ""

Tools ==
    {"list_spreadsheets", "get_sheet", "read_spreadsheet",
     "insert_row", "del_row", "del_col", "update_cell"}

RemoteOps ==
    {"list_spreadsheet_files", "open_by_key", "open", "worksheets", "worksheet",
     "mutation", "get_values"}

MaxInvocations == 2

\* The row and column positions a caller names.
Indices == {1}

SpreadsheetIds == {NoneArg, "", "key"}
Titles == {NoneArg, "title"}
NewValues == { <<"0">> }

Request(tool, sid, title, index, col, value) ==
    [tool |-> tool, spreadsheet_id |-> sid, title |-> title,
     index |-> index, col |-> col, new_value |-> value]

Requests ==
    { Request("list_spreadsheets", NoneArg, NoneArg, 0, 0, <<>>) }
    \cup { Request(t, s, n, 0, 0, <<>>) :
             t \in {"get_sheet", "read_spreadsheet"}, s \in SpreadsheetIds, n \in Titles }
    \cup { Request(t, s, n, i, 0, <<>>) :
             t \in {"insert_row", "del_row", "del_col"},
             s \in SpreadsheetIds, n \in Titles, i \in Indices }
    \cup { Request("update_cell", s, n, i, c, v) :
             s \in SpreadsheetIds, n \in Titles,
             i \in Indices, c \in Indices, v \in NewValues }

NoCalls == [op \in RemoteOps |-> 0]

Idle ==
    [pc |-> "idle", req |-> Request("none", NoneArg, NoneArg, 0, 0, <<>>),
     calls |-> NoCalls, status |-> "none", error |-> "none", failedAt |-> "none",
     failures |-> 0, table |-> <<>>, mutVer |-> 0, snapVer |-> 0,
     afterFailure |-> FALSE]

InitialSheet == << << <<"a">> >>, << <<"y">> >> >>

\* The resolution without its first branch.
Resolution_Unchecked(sid, title) == IF Given(sid) THEN "key" ELSE "title"

\* The resolution with the title tried first.
Resolution_TitleFirst(sid, title) ==
    IF ~Given(sid) /\ ~Given(title) THEN "invalid"
    ELSE IF Given(title) THEN "title"
    ELSE "key"

\* if not spreadsheet_id and not title / elif spreadsheet_id / else
Resolution(sid, title) ==
    IF ~Given(sid) /\ ~Given(title) THEN "invalid"
    ELSE IF Given(sid) THEN "key"
    ELSE "title"

\* The handlers with the table rendered before the mutation is sent.
StageAfter_RenderFirst(tool, stage) ==
    CASE stage = "resolve" -> IF tool = "get_sheet" THEN "worksheets" ELSE "worksheet"
      [] stage = "worksheets" -> "done"
      [] stage = "worksheet" -> "render"
      [] stage = "render" ->
            IF tool \in {"insert_row", "del_row", "del_col", "update_cell"}
            THEN "mutate" ELSE "done"
      [] stage = "mutate" -> "done"
      [] OTHER -> "done"

\* The statement a handler runs after `stage` returned.
StageAfter(tool, stage) ==
    CASE stage = "resolve" -> IF tool = "get_sheet" THEN "worksheets" ELSE "worksheet"
      [] stage = "worksheets" -> "done"
      [] stage = "worksheet" ->
            IF tool \in {"insert_row", "del_row", "del_col", "update_cell"}
            THEN "mutate" ELSE "render"
      [] stage = "mutate" -> "render"
      [] stage = "render" -> "done"
      [] OTHER -> "done"

\* A handler that sends the failed call again.
AfterRemoteError_Retry(tool, stage) == stage

\* A handler that catches the exception and goes on.
AfterRemoteError_Swallow(tool, stage) == StageAfter(tool, stage)

\* No handler catches: an exception of a remote call ends the invocation.
AfterRemoteError(tool, stage) == "done"

Width(sheet) == IF sheet = <<>> THEN 0 ELSE Len(sheet[1])

\* Whether the remote service accepts the mutation on the sheet as it is.
Accepts(sheet, req) ==
    CASE req.tool = "insert_row" -> req.index <= Len(sheet) + 1
      [] req.tool = "del_row" -> req.index <= Len(sheet)
      [] req.tool = "del_col" -> req.index <= Width(sheet)
      [] req.tool = "update_cell" -> req.index <= Len(sheet) /\ req.col <= Width(sheet)
      [] OTHER -> FALSE

RemoveAt(s, k) == SubSeq(s, 1, k - 1) \o SubSeq(s, k + 1, Len(s))

\* insert_row([], i), delete_rows(i), delete_columns(i), update_cell(r, c, v)
Applied(sheet, req) ==
    CASE req.tool = "insert_row" ->
            SubSeq(sheet, 1, req.index - 1)
                \o << [c \in 1..Width(sheet) |-> <<>>] >>
                \o SubSeq(sheet, req.index, Len(sheet))
      [] req.tool = "del_row" -> RemoveAt(sheet, req.index)
      [] req.tool = "del_col" -> [r \in 1..Len(sheet) |-> RemoveAt(sheet[r], req.index)]
      [] req.tool = "update_cell" ->
            [sheet EXCEPT ![req.index] = [@ EXCEPT ![req.col] = req.new_value]]
      [] OTHER -> sheet

\* The invocation after remote call `op`, issued at its current statement,
\* returned (ok) or raised.
Advance(i, op, ok) ==
    LET next == IF ok THEN StageAfter(i.req.tool, i.pc)
                ELSE AfterRemoteError(i.req.tool, i.pc)
    IN  [i EXCEPT
            !.calls = [@ EXCEPT ![op] = @ + 1],
            !.pc = next,
            !.status = IF ~ok THEN "error"
                       ELSE IF next = "done" /\ i.status = "none" THEN "success"
                       ELSE i.status,
            !.error = IF ok THEN @ ELSE "RemoteError",
            !.failedAt = IF ok THEN @ ELSE op,
            !.failures = IF ok THEN @ ELSE @ + 1]

----------------------------------------------------------------------------
(* The renderer on its own: a snapshot is drawn, then rendered.            *)

InitRender ==
    /\ data \in Grids \cup ExampleShapeGrids \cup RaggedGrids \cup SingleCellGrids
    /\ table = NotRendered
    /\ client = "ready"
    /\ remote = InitialSheet
    /\ ver = 0
    /\ started = 0
    /\ failed = FALSE
    /\ inv = [p \in Tasks |-> Idle]

Render ==
    /\ table = NotRendered
    /\ table' = sheet_to_markdown(data)
    /\ UNCHANGED <<data, hvars>>

NextRender == Render

SpecRender == InitRender /\ [][NextRender]_vars

----------------------------------------------------------------------------
(* The server: tasks run tool invocations against the shared client.       *)
Init ==
    /\ data = <<>>
    /\ table = NotRendered
    /\ client = "ready"
    /\ remote = InitialSheet
    /\ ver = 0
    /\ started = 0
    /\ failed = FALSE
    /\ inv = [p \in Tasks |-> Idle]

\* A tool call arrives and its handler starts.
Invoke(p) ==
    /\ inv[p].pc = "idle"
    /\ started < MaxInvocations
    /\ started' = started + 1
    /\ \E r \in Requests :
           inv' = [inv EXCEPT ![p] =
                      [Idle EXCEPT !.pc = "resolve", !.req = r, !.afterFailure = failed]]
    /\ UNCHANGED <<rvars, client, remote, ver, failed>>

\* client.list_spreadsheet_files()
ListSpreadsheets(p) ==
    /\ inv[p].pc = "resolve"
    /\ inv[p].req.tool = "list_spreadsheets"
    /\ client = "ready"
    /\ \E ok \in BOOLEAN :
           /\ inv' = [inv EXCEPT ![p] =
                         [Advance(@, "list_spreadsheet_files", ok) EXCEPT
                             !.pc = "done",
                             !.status = IF ok THEN "success" ELSE "error"]]
           /\ failed' = (failed \/ ~ok)
    /\ UNCHANGED <<rvars, client, remote, ver, started>>

\* raise ValueError("Either spreadsheet_id or title must be provided.")
RaiseValueError(p) ==
    /\ inv[p].pc = "resolve"
    /\ inv[p].req.tool # "list_spreadsheets"
    /\ Resolution(inv[p].req.spreadsheet_id, inv[p].req.title) = "invalid"
    /\ inv' = [inv EXCEPT ![p] =
                  [@ EXCEPT !.pc = "done", !.status = "error", !.error = "ValueError"]]
    /\ UNCHANGED <<rvars, client, remote, ver, started, failed>>

\* spreadsheet = client.open_by_key(spreadsheet_id)
OpenByKey(p) ==
    /\ inv[p].pc = "resolve"
    /\ inv[p].req.tool # "list_spreadsheets"
    /\ Resolution(inv[p].req.spreadsheet_id, inv[p].req.title) = "key"
    /\ client = "ready"
    /\ \E ok \in BOOLEAN :
           /\ inv' = [inv EXCEPT ![p] = Advance(@, "open_by_key", ok)]
           /\ failed' = (failed \/ ~ok)
    /\ UNCHANGED <<rvars, client, remote, ver, started>>

\* spreadsheet = client.open(title=title)
OpenByTitle(p) ==
    /\ inv[p].pc = "resolve"
    /\ inv[p].req.tool # "list_spreadsheets"
    /\ Resolution(inv[p].req.spreadsheet_id, inv[p].req.title) = "title"
    /\ client = "ready"
    /\ \E ok \in BOOLEAN :
           /\ inv' = [inv EXCEPT ![p] = Advance(@, "open", ok)]
           /\ failed' = (failed \/ ~ok)
    /\ UNCHANGED <<rvars, client, remote, ver, started>>

\* get_sheet: spreadsheet.worksheets(), then the result
Worksheets(p) ==
    /\ inv[p].pc = "worksheets"
    /\ \E ok \in BOOLEAN :
           /\ inv' = [inv EXCEPT ![p] = Advance(@, "worksheets", ok)]
           /\ failed' = (failed \/ ~ok)
    /\ UNCHANGED <<rvars, client, remote, ver, started>>

\* sheet = spreadsheet.worksheet(sheet_name)
ResolveWorksheet(p) ==
    /\ inv[p].pc = "worksheet"
    /\ \E ok \in BOOLEAN :
           /\ inv' = [inv EXCEPT ![p] = Advance(@, "worksheet", ok)]
           /\ failed' = (failed \/ ~ok)
    /\ UNCHANGED <<rvars, client, remote, ver, started>>

\* sheet.insert_row / delete_rows / delete_columns / update_cell
Mutate(p) ==
    /\ inv[p].pc = "mutate"
    /\ \/ /\ Accepts(remote, inv[p].req)
          /\ remote' = Applied(remote, inv[p].req)
          /\ ver' = ver + 1
          /\ inv' = [inv EXCEPT ![p] =
                        [Advance(@, "mutation", TRUE) EXCEPT !.mutVer = ver + 1]]
          /\ UNCHANGED failed
       \/ /\ inv' = [inv EXCEPT ![p] = Advance(@, "mutation", FALSE)]
          /\ failed' = TRUE
          /\ UNCHANGED <<remote, ver>>
    /\ UNCHANGED <<rvars, client, started>>

\* sheet_to_markdown(sheet): data = sheet.get_values(), then the table
GetValuesAndRender(p) ==
    /\ inv[p].pc = "render"
    /\ \/ /\ inv' = [inv EXCEPT ![p] =
                        [Advance(@, "get_values", TRUE) EXCEPT
                            !.table = sheet_to_markdown(remote),
                            !.snapVer = ver]]
          /\ UNCHANGED failed
       \/ /\ inv' = [inv EXCEPT ![p] = Advance(@, "get_values", FALSE)]
          /\ failed' = TRUE
    /\ UNCHANGED <<rvars, client, remote, ver, started>>

\* The result or the error goes back to the caller; nothing of the call is kept.
Return(p) ==
    /\ inv[p].pc = "done"
    /\ inv' = [inv EXCEPT ![p] = Idle]
    /\ UNCHANGED <<rvars, client, remote, ver, started, failed>>

Next ==
    \E p \in Tasks :
        \/ Invoke(p)
        \/ ListSpreadsheets(p)
        \/ RaiseValueError(p)
        \/ OpenByKey(p)
        \/ OpenByTitle(p)
        \/ Worksheets(p)
        \/ ResolveWorksheet(p)
        \/ Mutate(p)
        \/ GetValuesAndRender(p)
        \/ Return(p)

Spec == Init /\ [][Next]_vars

----------------------------------------------------------------------------
(* Reading a rendered table back: its lines, and the fields of a line.     *)

Rendered == table # NotRendered

\* The text cut at its line breaks (a last piece without a break is kept).
RECURSIVE SplitLines(_, _)
SplitLines(text, cur) ==
    IF text = <<>> THEN (IF cur = <<>> THEN <<>> ELSE <<cur>>)
    ELSE IF Head(text) = NL THEN <<cur>> \o SplitLines(Tail(text), <<>>)
    ELSE SplitLines(Tail(text), Append(cur, Head(text)))

Lines(text) == SplitLines(text, <<>>)

\* Three lines of preamble, a blank line, the header, then the data lines.
HeaderOf(text) == Lines(text)[5]

DataLines(text) == SubSeq(Lines(text), 6, Len(Lines(text)))

\* The digits a line carries after its opening "| ".
RECURSIVE LeadingDigits(_)
LeadingDigits(s) ==
    IF s # <<>> /\ IsDigit(Head(s)) THEN <<Head(s)>> \o LeadingDigits(Tail(s)) ELSE <<>>

IndexField(line) ==
    IF Len(line) >= 2 /\ line[1] = "|" /\ line[2] = " "
    THEN LeadingDigits(SubSeq(line, 3, Len(line)))
    ELSE <<>>

\* The number a data line displays, 0 when it displays none.
ShownIndex(line) == DigitRunValue(IndexField(line), 0)

ShownIndices(text) == { ShownIndex(DataLines(text)[k]) : k \in 1..Len(DataLines(text)) }

\* `| <index> | <cell> | <cell> ... |` for a row, written out cell by cell.
RECURSIVE CellsText(_)
CellsText(row) ==
    IF row = <<>> THEN <<>>
    ELSE IF Len(row) = 1 THEN row[1]
    ELSE row[1] \o <<" ", "|", " ">> \o CellsText(Tail(row))

ExpectedLine(i, row) == <<"|", " ">> \o str(i) \o <<" ", "|", " ">> \o CellsText(row) \o <<" ", "|">>

PipeCount(line) == Cardinality({ k \in 1..Len(line) : line[k] = "|" })

\* The number of columns of a Markdown table line: the fields between its pipes.
ColumnCount(line) == PipeCount(line) - 1

\* The whitespace-trimmed text of the cell is non-empty.
TrimmedNonEmpty(cell) == \E k \in 1..Len(cell) : cell[k] \notin Whitespace

\* The cell reads as an integer literal of value zero: "0", "00", "-0", " 0 ".
ZeroInteger(cell) == IntParses(cell) /\ IntValue(cell) = 0

OmittedRows == { i \in 1..Len(data) : ~AnyMeaningful(data[i]) }

----------------------------------------------------------------------------
(* C4: every data line of a rendered non-empty grid opens with the 1-based *)
(* position of its row in the unfiltered snapshot and carries that row's   *)
(* cells; the displayed indices are strictly increasing and skip exactly   *)
(* the positions of the omitted rows.                                      *)
C4_IndicesAreOriginalPositions ==
    (Rendered /\ data # <<>>) =>
        LET dl == DataLines(table)
            shown == [k \in 1..Len(dl) |-> ShownIndex(dl[k])]
        IN  /\ \A k \in 1..Len(dl) :
                /\ shown[k] \in 1..Len(data)
                /\ dl[k] = ExpectedLine(shown[k], data[shown[k]])
            /\ \A k \in 1..(Len(dl) - 1) : shown[k] < shown[k + 1]
            /\ (1..Len(data)) \ { shown[k] : k \in 1..Len(dl) } = OmittedRows

\* A rendered grid with an omitted row between two displayed ones.
C4_Witness ==
    /\ Rendered
    /\ Len(data) = 3
    /\ ShownIndices(table) = {1, 3}
    /\ Len(DataLines(table)) = 2

(* C5 as claimed: every row with a cell that is non-empty and not "0"       *)
(* appears with its original index, whatever the cell's content.           *)
C5_AsClaimed ==
    (Rendered /\ data # <<>>) =>
        LET dl == DataLines(table)
            shown == { dl[k] : k \in 1..Len(dl) }
        IN  \A i \in 1..Len(data) :
                (\E c \in 1..Len(data[i]) : data[i][c] # <<>> /\ data[i][c] # <<"0">>)
                    => ExpectedLine(i, data[i]) \in shown

(* C5 as amended: every row with a cell whose trimmed text is non-empty    *)
(* and is not an integer literal of value zero appears with its original   *)
(* 1-based index.                                                          *)
C5_MeaningfulRowsShown ==
    (Rendered /\ data # <<>>) =>
        LET dl == DataLines(table)
            shown == { dl[k] : k \in 1..Len(dl) }
        IN  \A i \in 1..Len(data) :
                (\E c \in 1..Len(data[i]) :
                     TrimmedNonEmpty(data[i][c]) /\ ~ZeroInteger(data[i][c]))
                    => ExpectedLine(i, data[i]) \in shown

\* A displayed third row whose only meaningful cell is text, after an omitted row.
C5_Witness ==
    /\ Rendered
    /\ Len(data) = 3
    /\ data[2] = << <<"0">>, <<>> >>
    /\ data[3] = << <<>>, <<"y">> >>
    /\ \E k \in 1..Len(DataLines(table)) : DataLines(table)[k] = ExpectedLine(3, data[3])

(* C6: a row whose cells are all the empty string or the literal "0" puts  *)
(* nothing in the output (no data line, no blank line, no gap marker), and *)
(* the rows after it keep their original indices.                          *)
C6_EmptyRowsEmitNothing ==
    (Rendered /\ data # <<>>) =>
        LET dl == DataLines(table)
            shown == [k \in 1..Len(dl) |-> ShownIndex(dl[k])]
            lines == { dl[k] : k \in 1..Len(dl) }
            blank == { i \in 1..Len(data) :
                         \A c \in 1..Len(data[i]) : data[i][c] \in { <<>>, <<"0">> } }
        IN  /\ \A i \in blank : \A k \in 1..Len(dl) : shown[k] # i
            /\ \A k \in 1..Len(dl) : dl[k] # <<>> /\ shown[k] \in 1..Len(data)
            /\ (\A i \in 1..Len(data) : i \in blank \/ AnyMeaningful(data[i]))
                   => Len(dl) = Len(data) - Cardinality(blank)
            /\ \A i \in blank : \A j \in (i + 1)..Len(data) :
                   AnyMeaningful(data[j]) => ExpectedLine(j, data[j]) \in lines

\* A rendered grid whose second row is the single cell "0" and whose third row is kept.
C6_Witness ==
    /\ Rendered
    /\ Len(data) = 3
    /\ \A c \in 1..Len(data[2]) : data[2][c] \in { <<>>, <<"0">> }
    /\ \E c \in 1..Len(data[2]) : data[2][c] = <<"0">>
    /\ 3 \in ShownIndices(table)

LineClaimedInExample == <<"|", " ", "2", " ", "|", " ", "|", " ", "y", " ", "|">>

LineOfExample == <<"|", " ", "3", " ", "|", " ", " ", "|", " ", "y", " ", "|">>

(* C7 as claimed: for [["h1","h2"],["0",""],["","y"]] the row ("0","") is  *)
(* suppressed and the row ("","y") is emitted as exactly `| 2 | | y |`.    *)
C7_AsClaimed ==
    (Rendered /\ data = ExampleGrid) =>
        /\ Len(DataLines(table)) = 2
        /\ DataLines(table)[2] = LineClaimedInExample

(* C7 as amended: for that grid the row ("0","") is suppressed and the row *)
(* ("","y"), the third of the snapshot, is emitted as exactly              *)
(* `| 3 |  | y |`.                                                         *)
C7_ExampleRendering ==
    (Rendered /\ data = ExampleGrid) =>
        /\ DataLines(table) = << ExpectedLine(1, HeaderExample), LineOfExample >>
        /\ 2 \notin ShownIndices(table)

C7_Witness == Rendered /\ data = ExampleGrid

\* `| Index | 1 | ... | (width-1) |`
RECURSIVE HeaderUpTo(_)
HeaderUpTo(n) ==
    IF n <= 0 THEN <<"|", " ", "Index", " ", "|">>
    ELSE HeaderUpTo(n - 1) \o <<" ">> \o str(n) \o <<" ", "|">>

(* C8 as claimed: the header is `| Index | 1 | ... | (width-1) |` for the  *)
(* first row's length width, so it has as many columns as the first row    *)
(* has cells, first rows of length 0 and 1 included.                       *)
C8_AsClaimed ==
    (Rendered /\ data # <<>>) =>
        /\ HeaderOf(table) = HeaderUpTo(Len(data[1]) - 1)
        /\ ColumnCount(HeaderOf(table)) = Len(data[1])

(* C8 as amended: for a first row of length width >= 2 the header is       *)
(* `| Index | 1 | ... | (width-1) |` and has width columns, whatever the   *)
(* other rows' lengths; for a first row of length 0 or 1 the header is     *)
(* `| Index |  |`, the Index column and one empty column.                  *)
C8_HeaderFromFirstRow ==
    (Rendered /\ data # <<>>) =>
        IF Len(data[1]) >= 2
        THEN /\ HeaderOf(table) = HeaderUpTo(Len(data[1]) - 1)
             /\ ColumnCount(HeaderOf(table)) = Len(data[1])
        ELSE /\ HeaderOf(table) = <<"|", " ", "Index", " ", "|", " ", " ", "|">>
             /\ ColumnCount(HeaderOf(table)) = 2

\* A rendered ragged grid: a first row of three cells and a shorter row after it.
C8_Witness ==
    /\ Rendered
    /\ Len(data) = 2
    /\ Len(data[1]) = 3
    /\ Len(data[2]) = 1
    /\ HeaderOf(table) = <<"|", " ", "Index", " ", "|", " ", "1", " ", "|", " ", "2", " ", "|">>

----------------------------------------------------------------------------
(* Claims about the tool handlers                                          *)

MutatingTools == {"insert_row", "del_row", "del_col", "update_cell"}

TargetedTools == MutatingTools \cup {"get_sheet", "read_spreadsheet"}

\* The argument was left out, or passed as None or as the empty string.
Absent(x) == x \in {NoneArg, ""}

Started(i) == i.pc \notin {"idle", "resolve"}

(* C1: a mutating tool invoked with neither spreadsheet_id nor title ends  *)
(* in the caller-input error, and has issued no remote call when it fails. *)
C1_NoTargetNoRemoteCall ==
    \A p \in Tasks :
        LET i == inv[p]
        IN  (i.req.tool \in MutatingTools
                /\ Absent(i.req.spreadsheet_id) /\ Absent(i.req.title))
            => /\ i.calls = NoCalls
               /\ Started(i) =>
                     /\ i.pc = "done"
                     /\ i.status = "error"
                     /\ i.error = "ValueError"

\* A mutating invocation without a target that has failed.
C1_Witness ==
    \E p \in Tasks :
        /\ inv[p].req.tool = "update_cell"
        /\ inv[p].req.spreadsheet_id = NoneArg
        /\ inv[p].req.title = NoneArg
        /\ inv[p].pc = "done"
        /\ inv[p].error = "ValueError"

(* C2: with both spreadsheet_id and title supplied the spreadsheet is      *)
(* opened by key, once, and never by title; the title lookup is issued     *)
(* only when spreadsheet_id is absent and title is present.                *)
C2_IdTakesPrecedence ==
    \A p \in Tasks :
        LET i == inv[p]
        IN  (i.req.tool \in TargetedTools /\ Started(i)) =>
                /\ (~Absent(i.req.spreadsheet_id) /\ ~Absent(i.req.title))
                       => i.calls["open_by_key"] = 1 /\ i.calls["open"] = 0
                /\ i.calls["open"] > 0
                       => Absent(i.req.spreadsheet_id) /\ ~Absent(i.req.title)
                /\ (Absent(i.req.spreadsheet_id) /\ ~Absent(i.req.title))
                       => i.calls["open"] = 1 /\ i.calls["open_by_key"] = 0

\* An invocation given both that has completed, opened by key.
C2_Witness ==
    \E p \in Tasks :
        /\ inv[p].req.spreadsheet_id = "key"
        /\ inv[p].req.title = "title"
        /\ inv[p].status = "success"
        /\ inv[p].calls["open_by_key"] = 1

(* C3: a successful insert_row, del_row, del_col or update_cell has issued *)
(* exactly one mutation and has taken the snapshot it renders afterwards:  *)
(* under every interleaving the snapshot is of a remote state that has its *)
(* own mutation applied, and the table is the rendering of that snapshot.  *)
C3_SnapshotAfterOwnMutation ==
    \A p \in Tasks :
        LET i == inv[p]
        IN  (i.req.tool \in MutatingTools /\ i.status = "success") =>
                /\ i.calls["mutation"] = 1
                /\ i.calls["get_values"] = 1
                /\ i.mutVer >= 1
                /\ i.snapVer >= i.mutVer
                /\ i.snapVer = ver => i.table = sheet_to_markdown(remote)

\* Two mutating invocations raced: one's snapshot already holds the other's mutation.
C3_Witness ==
    \E p, q \in Tasks :
        /\ p # q
        /\ inv[p].req.tool = "insert_row" /\ inv[p].status = "success"
        /\ inv[q].req.tool = "update_cell" /\ inv[q].status = "success"
        /\ inv[p].mutVer = 1
        /\ inv[q].mutVer = 2
        /\ inv[p].snapVer = 2

(* C9: a remote failure ends its invocation with an error result and       *)
(* nothing more: no call of the invocation is issued twice, the failed one *)
(* included, and the shared client stays usable.                           *)
C9_FailureIsTerminal ==
    /\ client = "ready"
    /\ \A p \in Tasks :
           LET i == inv[p]
           IN  /\ \A op \in RemoteOps : i.calls[op] <= 1
               /\ i.failures >= 1 =>
                     /\ i.failures = 1
                     /\ i.pc = "done"
                     /\ i.status = "error"
                     /\ i.error = "RemoteError"
                     /\ i.calls[i.failedAt] = 1
                     /\ i.table = <<>>

\* An invocation that arrived after a remote failure on the client has succeeded.
C9_Witness ==
    \E p \in Tasks :
        /\ inv[p].afterFailure
        /\ inv[p].req.tool = "del_row"
        /\ inv[p].status = "success"
        /\ client = "ready"

(* C10: an invocation whose spreadsheet or sheet could not be resolved,    *)
(* and every get_sheet and read_spreadsheet invocation, issues no mutation *)
(* and none of its steps changes the remote worksheet.                     *)
C10_NoMutationWithoutTarget ==
    [][ \A p \in Tasks :
            LET i == inv[p]
                j == inv'[p]
            IN  (/\ j.pc # "idle"
                 /\ \/ j.req.tool \in {"get_sheet", "read_spreadsheet"}
                    \/ j.failedAt \in {"open_by_key", "open", "worksheet"})
                => /\ j.calls["mutation"] = 0
                   /\ j # i => remote' = remote ]_vars

\* A del_col whose sheet was not found, with the remote worksheet as it was.
C10_Witness ==
    \E p \in Tasks :
        /\ inv[p].req.tool = "del_col"
        /\ inv[p].failedAt = "worksheet"
        /\ inv[p].calls["mutation"] = 0
        /\ ver = 0
        /\ remote = InitialSheet

====
